---------------------------- MODULE Spec2Model ----------------------------
(***************************************************************************)
(* Model of the fepy-backend invoice pipeline: the ingress routes that     *)
(* create Invoice Records and enqueue 'generar-factura' jobs, the Bull     *)
(* queue that runs them, the worker and procesarFactura, and the explicit  *)
(* retry route POST /api/invoices/:id/retry.                               *)
(*                                                                         *)
(* Strings that the code takes apart are sequences of one-character        *)
(* strings; a null string-valued field is "null", a null sequence-valued   *)
(* field (cdc, xmlPath) is << >>.                                          *)
(***************************************************************************)
EXTENDS Integers, Sequences, FiniteSets, TLC

VARIABLES
    now,        \* the wall clock, in instants (new Date())
    invoices,   \* the Invoice collection: a sequence of records, _id = index
    files,      \* the file system: <<directory, relative path>> -> content
    opLog,      \* the OperationLog collection: set of <<invoiceId, tipoOperacion>>
    reqs,       \* the ingress requests (POST /get_einvoice, POST /crear)
    jobs,       \* the 'facturacion' queue: a sequence of job records
    kudeJobs,   \* the 'kude' queue: the 'generar-kude' jobs waiting for their processor
    retries,    \* the requests to POST /:id/retry
    enFlight,   \* per invoice: calls of setApi.recibe issued and not yet answered
    envios,     \* per invoice: calls of setApi.recibe issued so far
    cdcHist,    \* per invoice: the CDCs computed by generarCDC so far
    descargas,  \* the requests to GET /:id/download-xml
    consultas,  \* the requests to the status routes
    calc        \* the last evaluation of a function called on its own

vars == <<now, invoices, files, opLog, reqs, jobs, kudeJobs, retries,
          enFlight, envios, cdcHist, descargas, consultas, calc>>

-----------------------------------------------------------------------------
(* Bounds of the model *)

NReq == 3            \* concurrent requests on the ingress routes
NReqCola == 1        \* requests followed through the queue and the worker
NRetry == 2          \* requests to the retry route
NRetryCola == 1      \* requests to the retry route beside the queue and the worker
MaxClock == 1        \* the clock takes the instants 0..MaxClock
MaxManualRetry == 1   \* runs of retryFailedJobs per job
MaxTimeout == 1      \* job timeouts
NDescarga == 1       \* requests to the download route
NConsulta == 1       \* requests to the status routes
NReqArchivo == 2     \* submissions whose artifact files are compared

(* Program constants *)

Attempts == 3        \* defaultJobOptions.attempts
BackoffDelay == 1000 \* defaultJobOptions.backoff.delay
KudeAttempts == 2    \* kudeQueue defaultJobOptions.attempts

NULL == "null"

-----------------------------------------------------------------------------
(* Character strings *)

Digits == <<"0", "1", "2", "3", "4", "5", "6", "7", "8", "9">>

IsDigit(c) == \E k \in 1..10 : Digits[k] = c

\* parseInt of one decimal character
DigitVal(c) == (CHOOSE k \in 1..10 : Digits[k] = c) - 1

\* String(n) of a single-digit number
DigitChar(n) == Digits[n + 1]

RECURSIVE Zeros(_)
Zeros(n) == IF n <= 0 THEN << >> ELSE <<"0">> \o Zeros(n - 1)

\* String.prototype.padStart(n, '0')
padStart(s, n) == IF Len(s) >= n THEN s ELSE Zeros(n - Len(s)) \o s

\* String.prototype.substring(a, b), 0-based, b exclusive
substring(s, a, b) ==
    LET hi == IF b > Len(s) THEN Len(s) ELSE b
    IN  IF a >= hi THEN << >> ELSE SubSeq(s, a + 1, hi)

\* s.replace(/[^0-9]/g, '') and s.replace(/-/g, '')
SoloDigitos(s) == SelectSeq(s, IsDigit)
SinGuiones(s) == SelectSeq(s, LAMBDA c : c # "-")

-----------------------------------------------------------------------------
(* Dates.  A date-time string is a record:                                 *)
(*   forma  "ausente" (undefined/null), "micro" (YYYY-MM-DDTHH:MM:SS.ffffff *)
(*          plus resto), "iso" (what Date.toISOString returns),            *)
(*          "invalida" (a string Date cannot parse); and for the values    *)
(*          that are not strings "date" (a Date), "numero" (a timestamp),  *)
(*          "dateInvalida" (a Date whose time value is NaN), "numeroFuera" *)
(*          (a number beyond the time values a Date can hold);             *)
(*          "RangeError" stands for the exception Date.toISOString throws  *)
(*   ymd    the eight digits of the calendar date                          *)
(*   inst   the instant of the day it denotes                              *)
(*   us     the last three of the six fraction digits ("micro" only)       *)
(*   resto  what follows the fraction ("micro" only)                       *)

Ymd20260224 == <<"2", "0", "2", "6", "0", "2", "2", "4">>
Ymd20260301 == <<"2", "0", "2", "6", "0", "3", "0", "1">>

\* the calendar date of a clock instant: instant 0 falls in February 2026,
\* every later instant in March 2026
YmdDe(t) == IF t = 0 THEN Ymd20260224 ELSE Ymd20260301
AnioDe(t) == SubSeq(YmdDe(t), 1, 4)
MesDe(t) == SubSeq(YmdDe(t), 5, 6)

FechaAusente == [forma |-> "ausente", ymd |-> << >>, inst |-> 0, us |-> << >>, resto |-> << >>]
FechaInvalida == [forma |-> "invalida", ymd |-> << >>, inst |-> 0, us |-> << >>, resto |-> << >>]
FechaMicro == [forma |-> "micro", ymd |-> Ymd20260224, inst |-> 100,
               us |-> <<"8", "0", "9">>, resto |-> << >>]

\* new Date(t).toISOString()
ISOde(t) == [forma |-> "iso", ymd |-> YmdDe(t), inst |-> t, us |-> << >>, resto |-> << >>]

normalizarDatetime(f, t) ==
    IF f.forma = "ausente" THEN ISOde(t)
    ELSE IF f.forma \in {"date", "numero"}
         THEN [f EXCEPT !.forma = "iso"]
    ELSE IF f.forma \in {"dateInvalida", "numeroFuera"}
         THEN [f EXCEPT !.forma = "RangeError"]
    ELSE IF f.forma = "micro"
         THEN \* keep the first three fraction digits, append resto or 'Z'
              [forma |-> IF f.resto = << >> THEN "iso" ELSE "isoResto",
               ymd |-> f.ymd, inst |-> f.inst, us |-> << >>, resto |-> f.resto]
    ELSE IF f.forma \in {"iso", "isoResto"}
         THEN [f EXCEPT !.forma = "iso", !.resto = << >>]
    ELSE ISOde(t)

\* what Date accepts after the seconds: nothing, 'Z' or an offset
Zonas == { << >>, <<"Z">>, <<"-", "0", "3", ":", "0", "0">> }

\* esFechaValida(fecha): new Date(fecha) has a time value
esFechaValida(f) ==
    /\ f.forma \in {"iso", "isoResto", "date", "numero"}
    /\ Len(f.ymd) = 8
    /\ 10 * DigitVal(f.ymd[5]) + DigitVal(f.ymd[6]) \in 1..12
    /\ 10 * DigitVal(f.ymd[7]) + DigitVal(f.ymd[8]) \in 1..31
    /\ f.resto \in Zonas

\* normalizarFechasEnObjeto on the payload: datosFactura.fecha is rewritten
\* only when it is a string, a number or a Date
normalizarFechasEnObjeto(d, t) ==
    IF d.fecha.forma = "ausente" THEN d
    ELSE [d EXCEPT !.fecha = normalizarDatetime(d.fecha, t)]

-----------------------------------------------------------------------------
(* Identifier deriver *)

\* a derivation that stamps the fingerprint with the instant it is made at
generarFacturaHashConReloj(d, t) ==
    <<SoloDigitos(d.ruc), d.numero, ISOde(t)>>

\* sha256 is modelled as injective: the fingerprint is the hashed string
generarFacturaHash(d, t) ==
    <<SoloDigitos(d.ruc), d.numero, normalizarDatetime(d.fecha, t)>>

RECURSIVE SumaDV(_, _, _)
SumaDV(cdc, i, multiplicador) ==
    IF i < 1 THEN 0
    ELSE DigitVal(cdc[i]) * multiplicador
         + SumaDV(cdc, i - 1, IF multiplicador >= 7 THEN 2 ELSE multiplicador + 1)

\* a check digit without the case of the remainder 1
calcularDVSinCasoUno(cdc) ==
    LET resto == SumaDV(cdc, Len(cdc), 2) % 11
        dv == IF resto = 0 THEN 0 ELSE 11 - resto
    IN  IF dv < 10 THEN <<DigitChar(dv)>> ELSE <<"1", "0">>

calcularDV(cdc) ==
    LET resto == SumaDV(cdc, Len(cdc), 2) % 11
        dv == IF resto = 0 THEN 0 ELSE IF resto = 1 THEN 1 ELSE 11 - resto
    IN  IF dv < 10 THEN <<DigitChar(dv)>> ELSE <<"1", "0">>

\* d: datosCompletos; rnd: the value of Math.floor(Math.random() * 900000000)
\* as a digit string; t: the clock
generarCDC(d, rnd, t) ==
    LET tipoDocumento == padStart(<<"1">>, 2)
        rucCompleto == SinGuiones(d.ruc)
        rucEmisor == padStart(substring(rucCompleto, 0, 8), 8)
        dv9 == substring(rucCompleto, 8, 9)
        dvEmisor == IF dv9 = << >> THEN <<"1">> ELSE dv9
        establecimiento == padStart(<<"0", "0", "1">>, 3)
        puntoExp == padStart(<<"0", "0", "1">>, 3)
        numeroDoc == padStart(IF d.numero = << >>
                              THEN <<"0", "0", "0", "0", "0", "0", "1">>
                              ELSE d.numero, 7)
        tipoContribuyente == <<"1">>
        fechaEmision == IF d.fecha.forma # "ausente"
                        THEN normalizarDatetime(d.fecha, t).ymd
                        ELSE YmdDe(t)
        tipoEmision == <<"1">>
        codigoSeguridad == padStart(IF d.codigoSeguridadAleatorio # << >>
                                    THEN d.codigoSeguridadAleatorio
                                    ELSE rnd, 9)
        cdcSinDV == tipoDocumento \o rucEmisor \o dvEmisor \o establecimiento
                    \o puntoExp \o numeroDoc \o tipoContribuyente
                    \o fechaEmision \o tipoEmision \o codigoSeguridad
    IN  cdcSinDV \o calcularDV(cdcSinDV)

\* the security code inside a CDC (characters 35..43)
CodigoSeguridadDe(cdc) == SubSeq(cdc, 35, 43)

-----------------------------------------------------------------------------
(* Result interpreter *)

Aceptados == {"0000", "0", "2", "0421"}
Pendientes == {"3", "0003"}
Rechazados == {"1000", "1001", "1002", "1003", "1004", "1"}

\* an interpreter whose first list lacks '0421' and whose default is 'error'
determinarEstadoSinDefecto(codigo, estadoResultado, mensaje) ==
    IF codigo = NULL \/ codigo = "" THEN "enviado"
    ELSE IF codigo \in Aceptados \ {"0421"} THEN "aceptado"
    ELSE IF codigo \in Pendientes THEN "procesando"
    ELSE IF codigo \in Rechazados THEN "rechazado"
    ELSE "error"

\* services/procesarFacturaService.js
determinarEstadoSegunCodigoRetorno(codigo, estadoResultado, mensaje) ==
    IF codigo = NULL \/ codigo = "" THEN "enviado"
    ELSE IF codigo \in Aceptados THEN "aceptado"
    ELSE IF codigo \in Pendientes THEN "procesando"
    ELSE IF codigo \in Rechazados THEN "rechazado"
    ELSE "enviado"

\* routes/invoices.js
determinarEstadoRetry(codigoRetorno, estadoResultado, mensajeRetorno) ==
    IF codigoRetorno = NULL \/ codigoRetorno = "" THEN "enviado"
    ELSE IF codigoRetorno \in {"0000", "0", "2"} THEN "aceptado"
    ELSE IF codigoRetorno = "0421" THEN "aceptado"
    ELSE IF codigoRetorno \in {"3", "0003"} THEN "procesando"
    ELSE IF codigoRetorno = "0420" THEN "error"
    ELSE IF codigoRetorno \in Rechazados THEN "rechazado"
    ELSE "enviado"

\* controllers/facturaController.js
determinarEstadoSegunCodigo(codigo) ==
    IF codigo = NULL \/ codigo = "" THEN "enviado"
    ELSE IF codigo \in {"0000", "0", "2", "0421"} THEN "aceptado"
    ELSE IF codigo \in {"3", "0003"} THEN "procesando"
    ELSE IF codigo \in {"1000", "1001", "1002", "1003", "1004", "1"} THEN "rechazado"
    ELSE "enviado"

\* A SOAP response of the remote authority: its <codigoRetorno> element,
\* NULL when the response has none
Respuestas == {"0000", "1000", "0003", NULL}

\* extraerCodigoRetorno of the service: a missing element reads '0000'
extraerCodigoRetorno(resp) == IF resp = NULL THEN "0000" ELSE resp

\* extraerMensajeRetorno: the text of <mensajeRetorno>, null without the
\* element; a response carries the element when it carries <codigoRetorno>
extraerMensajeRetorno(resp) == IF resp = NULL THEN NULL ELSE "mensaje"

\* extraerEstadoResultado: the text of <estadoResultado>, null without it
extraerEstadoResultado(resp) == IF resp = NULL THEN NULL ELSE "estadoResultado"

\* extraerEstadoResultado of the retry route
extraerEstadoResultadoRetry(resp) == IF resp = NULL THEN NULL ELSE "estadoResultado"

\* extraerCodigoRetorno of the retry route: a missing element reads null
extraerCodigoRetornoRetry(resp) == resp

\* extraerMensajeRetorno of the retry route
extraerMensajeRetornoRetry(resp) == IF resp = NULL THEN NULL ELSE "mensaje"

-----------------------------------------------------------------------------
(* Inputs *)

Ruc80012345 == <<"8", "0", "0", "1", "2", "3", "4", "5", "-", "1">>
\* the example ruc of the README: a body of seven digits
Ruc8001234 == <<"8", "0", "0", "1", "2", "3", "4", "-", "5">>
Numero60 == <<"0", "0", "0", "0", "0", "6", "0">>
Numero61 == <<"0", "0", "0", "0", "0", "6", "1">>
Codigo123456789 == <<"1", "2", "3", "4", "5", "6", "7", "8", "9">>

\* request bodies: ruc, numero, fecha, codigoSeguridadAleatorio; the other
\* fields the code reads (tipoDocumento, establecimiento, punto, tipoEmision,
\* timbrado, encabezado) are absent, so that the code's defaults apply
Payloads ==
    { [ruc |-> Ruc80012345, numero |-> Numero60, fecha |-> FechaMicro,
       codigoSeguridadAleatorio |-> << >>],
      [ruc |-> Ruc80012345, numero |-> Numero60, fecha |-> FechaAusente,
       codigoSeguridadAleatorio |-> << >>],
      [ruc |-> Ruc80012345, numero |-> Numero61, fecha |-> FechaMicro,
       codigoSeguridadAleatorio |-> Codigo123456789] }

\* the body used where one submission is followed through the retry route
PayloadReintento ==
    [ruc |-> Ruc80012345, numero |-> Numero60, fecha |-> FechaMicro,
     codigoSeguridadAleatorio |-> << >>]

Rutas == {"get_einvoice", "crear"}

\* values of Math.floor(Math.random() * 900000000)
Aleatorios == { <<"4", "2">>, <<"7", "7", "7">> }

\* the ruc of an inactive issuer, of an issuer without a valid certificate,
\* and of no issuer
RucsDeValidacion ==
    [inactiva |-> <<"8", "0", "0", "2", "2", "2", "2", "2", "-", "2">>,
     sinCertificado |-> <<"8", "0", "0", "3", "3", "3", "3", "3", "-", "3">>,
     desconocido |-> <<"8", "0", "0", "4", "4", "4", "4", "4", "-", "4">>]

\* the Empresa collection: two active issuers with a valid certificate, an
\* inactive one, and one whose certificate is not valid; the timbrado is
\* configuracionSifen.timbrado || '12345678'
Empresas == { [ruc |-> Ruc80012345, activo |-> TRUE, certificado |-> TRUE,
               timbrado |-> <<"1", "2", "3", "4", "5", "6", "7", "8">>],
              [ruc |-> Ruc8001234, activo |-> TRUE, certificado |-> TRUE,
               timbrado |-> <<"1", "2", "3", "4", "5", "6", "7", "8">>],
              [ruc |-> RucsDeValidacion.inactiva, activo |-> FALSE, certificado |-> TRUE,
               timbrado |-> <<"1", "2", "3", "4", "5", "6", "7", "8">>],
              [ruc |-> RucsDeValidacion.sinCertificado, activo |-> TRUE, certificado |-> FALSE,
               timbrado |-> <<"1", "2", "3", "4", "5", "6", "7", "8">>] }

\* request bodies for the validations of the issuer: no ruc, the ruc of no
\* issuer, of the inactive issuer, of the issuer without a valid
\* certificate, and a body that passes
PayloadsValidacion ==
    { [PayloadReintento EXCEPT !.ruc = ruc] :
        ruc \in {<< >>, RucsDeValidacion.desconocido, RucsDeValidacion.inactiva, RucsDeValidacion.sinCertificado, Ruc80012345} }

EmpresaPorRuc(ruc) == { e \in Empresas : e.ruc = ruc }

\* Empresa.findOne({ruc}) with the alternative searches with/without hyphen
BuscarEmpresa(rucEmpresa) ==
    LET conGuion == \E k \in 1..Len(rucEmpresa) : rucEmpresa[k] = "-"
        sinGuiones == SoloDigitos(rucEmpresa)
        n == Len(sinGuiones)
        rucConGuion == SubSeq(sinGuiones, 1, n - 1) \o <<"-">> \o SubSeq(sinGuiones, n, n)
    IN  IF EmpresaPorRuc(rucEmpresa) # {} THEN EmpresaPorRuc(rucEmpresa)
        ELSE IF conGuion THEN EmpresaPorRuc(sinGuiones)
        ELSE IF n >= 7 /\ n <= 9 THEN EmpresaPorRuc(rucConGuion)
        ELSE {}

-----------------------------------------------------------------------------
(* Collections *)

InvoiceIds == 1..Len(invoices)

\* Invoice.findOne({facturaHash})
FacturaExistente(hash) == { i \in InvoiceIds : invoices[i].facturaHash = hash }

\* new Invoice({... estadoSifen: 'encolado' ...})
NuevaInvoice(ruta, datos, hash) ==
    [correlativo |-> IF ruta = "crear"
                     THEN <<"0", "0", "1", "-", "0", "0", "1", "-">> \o padStart(datos.numero, 7)
                     ELSE <<"0", "0", "1", "0", "0", "1">> \o padStart(datos.numero, 7),
     estadoSifen |-> "encolado",
     datosFactura |-> datos,
     facturaHash |-> hash,
     cdc |-> << >>,
     xmlPath |-> << >>,
     codigoRetorno |-> NULL,
     mensajeRetorno |-> NULL,
     kudePath |-> << >>]

\* save() of a new document in a collection without the unique index
InsertSinIndice(hash) == TRUE

\* invoice.save() of a new document under the unique index on facturaHash:
\* TRUE when the insert is accepted
InsertAceptado(hash) == FacturaExistente(hash) = {}

\* jobId: `factura-${invoice._id}`
JobId(facturaId) == <<"factura", facturaId>>

JobIdx == 1..Len(jobs)

EnCola(j) == jobs[j].estado \in {"waiting", "delayed", "active"}

\* the job and the locals of its processor; guardados counts the saves of a
\* result on the record since the job was added.  huerfano marks a processor
\* whose job the queue has failed on its timeout while the processor runs on;
\* progreso holds the values the attempt has passed to job.progress
NuevoJob(facturaId, datos) ==
    [id |-> JobId(facturaId), facturaId |-> facturaId, datosFactura |-> datos,
     estado |-> "waiting", attemptsMade |-> 0, delays |-> << >>,
     runs |-> 0, manual |-> 0, guardados |-> 0,
     pc |-> "-", invoice |-> FALSE, cdc |-> << >>, codigoRetorno |-> NULL,
     mensajeRetorno |-> NULL, soapResponse |-> "-",
     estadoRes |-> NULL, xmlPath |-> << >>, error |-> NULL, huerfano |-> FALSE,
     progreso |-> << >>]

\* queue.add(name, data, {jobId}): a job whose id is already in the queue is
\* not added again
QueueAdd(q, job) ==
    IF \E k \in 1..Len(q) : q[k].id = job.id THEN q ELSE Append(q, job)

\* The directories named de_output, relative to the application directory.
\* The service resolves '../de_output' from services/; routes/invoices.js and
\* the controller resolve '../../de_output' from routes/ and controllers/,
\* which is one level above the application directory
RaizServicio == "de_output"
RaizRutas == "../de_output"

\* path.join(raiz, xmlPath)
Unir(raiz, xmlPath) == <<raiz, xmlPath>>

\* fs.existsSync(path) / the file at path
Existe(path) == path \in DOMAIN files

Escribir(path, contenido) ==
    [p \in DOMAIN files \cup {path} |-> IF p = path THEN contenido ELSE files[p]]

-----------------------------------------------------------------------------
(* Initial state *)

ReqIds == 1..NReq
RetryIds == 1..NRetry

\* error is the message of the exception the catch of the controller receives
\* body is the request body as it arrived, before its dates are normalized
ReqNuevo == [pc |-> "nuevo", ruta |-> "-", datos |-> CHOOSE p \in Payloads : TRUE,
             body |-> CHOOSE p \in Payloads : TRUE, hash |-> << >>, inv |-> 0, status |-> 0, facturaId |-> 0, job |-> FALSE,
             error |-> NULL]

RetryNuevo == [pc |-> "idle", inv |-> 0, status |-> 0]

DescargaIds == 1..NDescarga
DescargaNueva == [pc |-> "idle", inv |-> 0, status |-> 0, message |-> NULL,
                  contenido |-> << >>]

ConsultaIds == 1..NConsulta
ConsultaNueva == [pc |-> "idle", ruta |-> "-", inv |-> 0, leido |-> NULL,
                  estado |-> NULL, status |-> 0, reportado |-> NULL]

CalcNuevo == [codigo |-> NULL, estadoResultado |-> NULL, mensaje |-> NULL,
              estado |-> "-", retry |-> "-", controlador |-> "-"]

Init ==
    /\ now = 0
    /\ invoices = << >>
    /\ files = << >>
    /\ opLog = {}
    /\ reqs = [r \in ReqIds |-> ReqNuevo]
    /\ jobs = << >>
    /\ kudeJobs = {}
    /\ retries = [q \in RetryIds |-> RetryNuevo]
    /\ enFlight = << >>
    /\ envios = << >>
    /\ cdcHist = << >>
    /\ descargas = [d \in DescargaIds |-> DescargaNueva]
    /\ consultas = [c \in ConsultaIds |-> ConsultaNueva]
    /\ calc = CalcNuevo

Tick ==
    /\ now < MaxClock
    /\ now' = now + 1
    /\ UNCHANGED <<descargas, consultas, calc, invoices, files, opLog, reqs, jobs, kudeJobs, retries,
                   enFlight, envios, cdcHist>>

-----------------------------------------------------------------------------
(* Ingress: POST /get_einvoice and POST /api/facturar/crear.  The handler   *)
(* awaits Empresa.findOne, Invoice.findOne, invoice.save and               *)
(* facturaQueue.add; other requests run between the duplicate check, the   *)
(* save and the enqueue.                                                   *)

Responder(r, status, facturaId) ==
    [reqs EXCEPT ![r].pc = "fin", ![r].status = status, ![r].facturaId = facturaId]

\* a duplicate branch that enqueues the existing record once more
ResponderDuplicadoReencola(r, body, datos, hash, existente) ==
    /\ reqs' = [Responder(r, 409, existente) EXCEPT ![r].body = body, ![r].datos = datos,
                                                    ![r].hash = hash]
    /\ jobs' = Append(jobs, NuevoJob(existente, datos))

\* The duplicate branch of the handler: 409 with the existing record's id,
\* nothing saved, nothing enqueued
ResponderDuplicado(r, body, datos, hash, existente) ==
    /\ reqs' = [Responder(r, 409, existente) EXCEPT ![r].body = body, ![r].datos = datos,
                                                    ![r].hash = hash]
    /\ UNCHANGED jobs

\* a handler that checks that the issuer exists and nothing more of it
IngressRecibirSinValidar(r, ruta, body) ==
    /\ reqs[r].pc = "nuevo"
    /\ LET datos == normalizarFechasEnObjeto(body, now)
       IN  IF BuscarEmpresa(datos.ruc) = {}
           THEN reqs' = [Responder(r, 404, 0) EXCEPT ![r].ruta = ruta]
           ELSE reqs' = [reqs EXCEPT ![r].pc = "crear", ![r].ruta = ruta, ![r].datos = datos,
                                     ![r].body = body,
                                     ![r].hash = generarFacturaHash(datos, now)]
    /\ UNCHANGED <<descargas, consultas, calc, now, invoices, files, opLog, jobs, kudeJobs,
                   retries, enFlight, envios, cdcHist>>

\* normalize dates, find the issuer, validate it, derive the fingerprint and
\* look for a record with it
IngressRecibir(r, ruta, body) ==
    /\ reqs[r].pc = "nuevo"
    /\ LET datos == normalizarFechasEnObjeto(body, now)
           empresa == BuscarEmpresa(datos.ruc)
           hash == generarFacturaHash(datos, now)
       IN  IF datos.ruc = << >>
           THEN reqs' = [Responder(r, 400, 0) EXCEPT ![r].ruta = ruta] /\ UNCHANGED jobs
           ELSE IF empresa = {}
           THEN reqs' = [Responder(r, 404, 0) EXCEPT ![r].ruta = ruta] /\ UNCHANGED jobs
           ELSE IF \E e \in empresa : ~e.activo \/ ~e.certificado
           THEN reqs' = [Responder(r, 400, 0) EXCEPT ![r].ruta = ruta] /\ UNCHANGED jobs
           ELSE IF FacturaExistente(hash) # {}
           THEN ResponderDuplicado(r, body, datos, hash,
                                   CHOOSE i \in FacturaExistente(hash) : TRUE)
           ELSE /\ reqs' = [reqs EXCEPT ![r].pc = "crear", ![r].ruta = ruta, ![r].body = body,
                                        ![r].datos = datos, ![r].hash = hash]
                /\ UNCHANGED jobs
    /\ UNCHANGED <<descargas, consultas, calc, now, invoices, files, opLog, kudeJobs, retries,
                   enFlight, envios, cdcHist>>

\* invoice.save(): the unique index rejects a second record with the
\* fingerprint (E11000), which the handler's catch answers with 500
IngressCrear(r) ==
    /\ reqs[r].pc = "crear"
    /\ IF InsertAceptado(reqs[r].hash)
       THEN /\ invoices' = Append(invoices,
                                  NuevaInvoice(reqs[r].ruta, reqs[r].datos, reqs[r].hash))
            /\ enFlight' = Append(enFlight, 0)
            /\ envios' = Append(envios, 0)
            /\ cdcHist' = Append(cdcHist, {})
            /\ reqs' = [reqs EXCEPT ![r].pc = "encolar", ![r].inv = Len(invoices) + 1]
       ELSE /\ reqs' = Responder(r, 500, 0)
            /\ UNCHANGED <<invoices, enFlight, envios, cdcHist>>
    /\ UNCHANGED <<descargas, consultas, calc, now, files, opLog, jobs, kudeJobs, retries>>

\* facturaQueue.add('generar-factura', ..., {jobId}) and the 202 answer;
\* when the add rejects (the queue's Redis cannot be reached) the handler's
\* catch answers 500 and the record that was saved stays as it is
IngressEncolar(r) ==
    /\ reqs[r].pc = "encolar"
    /\ \E encolado \in BOOLEAN :
         IF encolado
         THEN /\ jobs' = QueueAdd(jobs, NuevoJob(reqs[r].inv, reqs[r].datos))
              /\ reqs' = [Responder(r, 202, reqs[r].inv) EXCEPT ![r].job = TRUE]
         ELSE /\ reqs' = Responder(r, 500, 0)
              /\ UNCHANGED jobs
    /\ UNCHANGED <<descargas, consultas, calc, now, invoices, files, opLog, kudeJobs, retries,
                   enFlight, envios, cdcHist>>

-----------------------------------------------------------------------------
(* The 'facturacion' queue (Bull) *)

RECURSIVE Pow2(_)
Pow2(n) == IF n <= 0 THEN 1 ELSE 2 * Pow2(n - 1)

\* backoff {type: 'fixed'}: the same delay before every attempt
BackoffFijo(attemptsMade) == BackoffDelay

\* backoff {type: 'exponential', delay: 1000}: Bull's built-in exponential
\* strategy waits (2^attemptsMade - 1) * delay before the next attempt
Backoff(attemptsMade) == (Pow2(attemptsMade) - 1) * BackoffDelay

\* the processor's promise rejected: the attempt is counted, and the job is
\* delayed for another attempt while attempts remain, else it is failed
MoveToFailed(job) ==
    LET n == job.attemptsMade + 1
    IN  IF n < Attempts
        THEN [job EXCEPT !.attemptsMade = n, !.estado = "delayed", !.pc = "-",
                         !.delays = Append(@, Backoff(n))]
        ELSE [job EXCEPT !.attemptsMade = n, !.estado = "failed", !.pc = "-"]

\* the delay of a delayed job has passed
JobPromover(j) ==
    /\ jobs[j].estado = "delayed"
    /\ jobs' = [jobs EXCEPT ![j].estado = "waiting"]
    /\ UNCHANGED <<descargas, consultas, calc, now, invoices, files, opLog, reqs, kudeJobs, retries,
                   enFlight, envios, cdcHist>>

\* defaultJobOptions.timeout: when the processor of an active job has not
\* settled in time the queue fails the attempt as it does a rejected one.
\* The processor is not cancelled: it runs on, detached from its job, and
\* the queue ignores how it settles.  The timer is taken to fire while the
\* processor awaits the answer of the remote authority
JobTimeout(j) ==
    /\ jobs[j].estado = "active" /\ ~jobs[j].huerfano /\ jobs[j].pc = "respuesta"
    /\ Cardinality({ k \in JobIdx : jobs[k].huerfano }) < MaxTimeout
    /\ jobs' = Append([jobs EXCEPT ![j] = MoveToFailed(jobs[j])],
                      [jobs[j] EXCEPT !.huerfano = TRUE])
    /\ UNCHANGED <<descargas, consultas, calc, now, invoices, files, opLog, reqs, kudeJobs,
                   retries, enFlight, envios, cdcHist>>

\* retryFailedJobs: job.retry() puts a failed job back to waiting
RetryFailedJobs(j) ==
    /\ jobs[j].estado = "failed"
    /\ jobs[j].manual < MaxManualRetry
    /\ jobs' = [jobs EXCEPT ![j].estado = "waiting", ![j].manual = @ + 1]
    /\ UNCHANGED <<descargas, consultas, calc, now, invoices, files, opLog, reqs, kudeJobs, retries,
                   enFlight, envios, cdcHist>>

-----------------------------------------------------------------------------
(* The worker: facturaQueue.process('generar-factura') and procesarFactura *)

\* the worker takes a waiting job (process() without a concurrency argument
\* runs one job at a time): the processor is invoked with invoice = null
WorkerTomar(j) ==
    /\ jobs[j].estado = "waiting"
    /\ \A k \in JobIdx : jobs[k].estado = "active" => jobs[k].huerfano
    /\ jobs' = [jobs EXCEPT ![j].estado = "active", ![j].runs = @ + 1,
                            ![j].pc = "inicio", ![j].invoice = FALSE,
                            ![j].cdc = << >>, ![j].codigoRetorno = NULL,
                            ![j].mensajeRetorno = NULL, ![j].soapResponse = "-",
                            ![j].estadoRes = NULL, ![j].xmlPath = << >>,
                            ![j].error = NULL, ![j].progreso = << >>]
    /\ UNCHANGED <<descargas, consultas, calc, now, invoices, files, opLog, reqs, kudeJobs, retries,
                   enFlight, envios, cdcHist>>

\* a processor that starts the pipeline without saving 'procesando'
WorkerInicioSinEstado(j) ==
    /\ jobs[j].estado = "active" /\ jobs[j].pc = "inicio"
    /\ jobs' = [jobs EXCEPT ![j].invoice = TRUE, ![j].pc = "empresa"]
    /\ UNCHANGED <<descargas, consultas, calc, now, invoices, opLog, files, reqs, kudeJobs, retries,
                   enFlight, envios, cdcHist>>

\* Invoice.findById, estadoSifen = 'procesando', save, OperationLog.create
WorkerInicio(j) ==
    /\ jobs[j].estado = "active" /\ jobs[j].pc = "inicio"
    /\ LET f == jobs[j].facturaId
       IN  IF f \in InvoiceIds
           THEN /\ invoices' = [invoices EXCEPT
                                  ![f].estadoSifen = "procesando"]
                /\ opLog' = opLog \cup {<<f, "inicio_proceso">>}
                /\ jobs' = [jobs EXCEPT ![j].invoice = TRUE, ![j].pc = "empresa",
                                        ![j].progreso = @ \o <<10, 20>>]
           ELSE /\ jobs' = [jobs EXCEPT ![j].error = "Factura no encontrada en BD",
                                        ![j].pc = "catch",
                                        ![j].progreso = @ \o <<10>>]
                /\ UNCHANGED <<invoices, opLog>>
    /\ UNCHANGED <<descargas, consultas, calc, now, files, reqs, kudeJobs, retries, enFlight, envios, cdcHist>>

\* stage 1: Empresa.findById and its validation
WorkerEmpresa(j) ==
    /\ jobs[j].estado = "active" /\ jobs[j].pc = "empresa"
    /\ LET empresa == BuscarEmpresa(jobs[j].datosFactura.ruc)
       IN  jobs' = [jobs EXCEPT
                ![j].error = IF empresa = {} THEN "Empresa no encontrada"
                             ELSE IF \E e \in empresa : ~e.activo THEN "Empresa inactiva"
                             ELSE IF \E e \in empresa : ~e.certificado
                                  THEN "La empresa no tiene un certificado digital valido"
                             ELSE NULL,
                ![j].pc = IF empresa = {} \/ \E e \in empresa : ~e.activo \/ ~e.certificado
                          THEN "catch" ELSE "cdc",
                ![j].progreso = IF empresa = {} \/ \E e \in empresa : ~e.activo \/ ~e.certificado
                                THEN @ \o <<5>> ELSE @ \o <<5, 10>>]
    /\ UNCHANGED <<descargas, consultas, calc, now, invoices, files, opLog, reqs, kudeJobs, retries,
                   enFlight, envios, cdcHist>>

\* stages 2-3: completarDatosConEmpresa and generarCDC
WorkerCDC(j) ==
    /\ jobs[j].estado = "active" /\ jobs[j].pc = "cdc"
    /\ \E rnd \in Aleatorios :
         LET cdcGenerado == generarCDC(jobs[j].datosFactura, rnd, now)
         IN  /\ jobs' = [jobs EXCEPT ![j].cdc = cdcGenerado, ![j].pc = "xml",
                                     ![j].progreso = @ \o <<15, 20>>]
             /\ cdcHist' = [cdcHist EXCEPT ![jobs[j].facturaId] = @ \cup {cdcGenerado}]
    /\ UNCHANGED <<descargas, consultas, calc, now, invoices, files, opLog, reqs, kudeJobs, retries,
                   enFlight, envios>>

\* stages 4-7: generateXMLDE, signXML, generateQR; each may throw
Transformaciones == {"xmlgen", "xmlsign", "qrgen"}

\* the names fechaUtils exports
ExportsFechaUtils == {"normalizarDatetime", "normalizarFechasEnObjeto",
                      "formatoFechaSIFEN", "esFechaValida"}

\* the failures of stage 5 that come from the code: the service calls
\* convertirFechasASIFEN, destructured from require('../utils/fechaUtils'),
\* before generateXMLDE; a name the module does not export is undefined and
\* the call throws a TypeError
FallasDeImportacion ==
    IF "convertirFechasASIFEN" \in ExportsFechaUtils THEN {}
    ELSE {"convertirFechasASIFEN is not a function"}

\* reportarProgreso in stages 4-7: 25 after the params, 35 after
\* generateXMLDE, 50 after signXML, 60 after generateQR
ProgresoHasta(falla) ==
    IF falla = "ninguna" THEN <<25, 35, 50, 60>>
    ELSE IF falla = "qrgen" THEN <<25, 35, 50>>
    ELSE IF falla = "xmlsign" THEN <<25, 35>>
    ELSE <<25>>

\* stages 4-7.  The attempt passes them, a library call throws, or the call
\* of convertirFechasASIFEN throws; the step past that call is the one of a
\* deployment whose fechaUtils defines the function, as the repository's
\* SOLUCION_FECHA_ERPNEXT.md describes it
WorkerXml(j) ==
    /\ jobs[j].estado = "active" /\ jobs[j].pc = "xml"
    /\ \E falla \in Transformaciones \cup FallasDeImportacion \cup {"ninguna"} :
         jobs' = [jobs EXCEPT ![j].error = IF falla = "ninguna" THEN NULL ELSE falla,
                              ![j].pc = IF falla = "ninguna" THEN "enviar" ELSE "catch",
                              ![j].progreso = @ \o ProgresoHasta(falla)]
    /\ UNCHANGED <<descargas, consultas, calc, now, invoices, files, opLog, reqs, kudeJobs, retries,
                   enFlight, envios, cdcHist>>

\* stage 8: setApi.recibe is called with the stamped document
WorkerEnviar(j) ==
    /\ jobs[j].estado = "active" /\ jobs[j].pc = "enviar"
    /\ enFlight' = [enFlight EXCEPT ![jobs[j].facturaId] = @ + 1]
    /\ envios' = [envios EXCEPT ![jobs[j].facturaId] = @ + 1]
    /\ jobs' = [jobs EXCEPT ![j].pc = "respuesta"]
    /\ UNCHANGED <<descargas, consultas, calc, now, invoices, files, opLog, reqs, kudeJobs, retries, cdcHist>>

\* stage 8-9: the call returns a SOAP response, or throws; the result code
\* is extracted and interpreted
WorkerRespuesta(j) ==
    /\ jobs[j].estado = "active" /\ jobs[j].pc = "respuesta"
    /\ enFlight' = [enFlight EXCEPT ![jobs[j].facturaId] = @ - 1]
    /\ \E resp \in Respuestas \cup {"throw"} :
         IF resp = "throw"
         THEN jobs' = [jobs EXCEPT ![j].error = "ECONNREFUSED", ![j].pc = "catch"]
         ELSE LET codigoRetorno == extraerCodigoRetorno(resp)
              IN  jobs' = [jobs EXCEPT
                      ![j].soapResponse = resp,
                      ![j].codigoRetorno = codigoRetorno,
                      ![j].mensajeRetorno = extraerMensajeRetorno(resp),
                      ![j].estadoRes = determinarEstadoSegunCodigoRetorno(
                                         codigoRetorno, extraerEstadoResultado(resp),
                                         extraerMensajeRetorno(resp)),
                      ![j].progreso = @ \o <<75, 80>>,
                      ![j].pc = "archivo"]
    /\ UNCHANGED <<descargas, consultas, calc, now, invoices, files, opLog, reqs, kudeJobs, retries, envios, cdcHist>>

\* de_output/<anio>/<mes>/<tipo>_<timbrado>-<est>-<punto>-<numero>.xml
RutaArchivo(d, t) ==
    [anio |-> AnioDe(t), mes |-> MesDe(t),
     timbrado |-> (CHOOSE e \in BuscarEmpresa(d.ruc) : TRUE).timbrado,
     establecimiento |-> padStart(<<"0", "0", "1">>, 3),
     punto |-> padStart(<<"0", "0", "1">>, 3),
     numero |-> padStart(d.numero, 7)]

\* stage 10: fs.writeFileSync(rutaArchivo, xmlConQR); the document is
\* identified by the CDC it carries
WorkerArchivo(j) ==
    /\ jobs[j].estado = "active" /\ jobs[j].pc = "archivo"
    /\ \E escrito \in BOOLEAN :
         IF escrito
         THEN LET ruta == RutaArchivo(jobs[j].datosFactura, now)
              IN  /\ files' = Escribir(Unir(RaizServicio, ruta), jobs[j].cdc)
                  /\ jobs' = [jobs EXCEPT ![j].xmlPath = ruta, ![j].pc = "guardar",
                                          ![j].progreso = @ \o <<90>>]
         ELSE /\ jobs' = [jobs EXCEPT ![j].error = "EIO", ![j].pc = "catch"]
              /\ UNCHANGED files
    /\ UNCHANGED <<descargas, consultas, calc, now, invoices, opLog, reqs, kudeJobs, retries, enFlight, envios, cdcHist>>

\* the worker writes the result on the record and saves it
WorkerGuardar(j) ==
    /\ jobs[j].estado = "active" /\ jobs[j].pc = "guardar"
    /\ invoices' = [invoices EXCEPT
                       ![jobs[j].facturaId].estadoSifen = jobs[j].estadoRes,
                       ![jobs[j].facturaId].cdc = jobs[j].cdc,
                       ![jobs[j].facturaId].codigoRetorno = jobs[j].codigoRetorno,
                       ![jobs[j].facturaId].mensajeRetorno = jobs[j].mensajeRetorno,
                       ![jobs[j].facturaId].xmlPath = jobs[j].xmlPath]
    /\ jobs' = [jobs EXCEPT ![j].pc = "log", ![j].guardados = @ + 1,
                            ![j].progreso = @ \o <<95>>]
    /\ UNCHANGED <<descargas, consultas, calc, now, files, opLog, reqs, kudeJobs, retries, enFlight, envios, cdcHist>>

\* OperationLog.create({tipoOperacion: 'envio_exitoso'}); the write may fail
WorkerLog(j) ==
    /\ jobs[j].estado = "active" /\ jobs[j].pc = "log"
    /\ \E creado \in BOOLEAN :
         IF creado
         THEN /\ opLog' = opLog \cup {<<jobs[j].facturaId, "envio_exitoso">>}
              /\ jobs' = [jobs EXCEPT ![j].pc = "kude", ![j].progreso = @ \o <<100>>]
         ELSE /\ jobs' = [jobs EXCEPT ![j].error = "OperationLog", ![j].pc = "catch"]
              /\ UNCHANGED opLog
    /\ UNCHANGED <<descargas, consultas, calc, now, invoices, files, reqs, kudeJobs, retries, enFlight, envios, cdcHist>>

\* a processor that lets the failure of kudeQueue.add reach its catch
WorkerKudePropaga(j) ==
    /\ jobs[j].estado = "active" /\ jobs[j].pc = "kude"
    /\ \E encolado \in BOOLEAN :
         IF encolado
         THEN /\ kudeJobs' = kudeJobs \cup {[facturaId |-> jobs[j].facturaId,
                                             xmlPath |-> jobs[j].xmlPath,
                                             attemptsMade |-> 0]}
              /\ jobs' = [jobs EXCEPT ![j].estado = "completed", ![j].pc = "-"]
         ELSE /\ jobs' = [jobs EXCEPT ![j].error = "kudeQueue", ![j].pc = "catch"]
              /\ UNCHANGED kudeJobs
    /\ UNCHANGED <<descargas, consultas, calc, now, invoices, files, opLog, reqs, retries,
                   enFlight, envios, cdcHist>>

\* kudeQueue.add in its own try/catch, then the processor returns: completed
WorkerKude(j) ==
    /\ jobs[j].estado = "active" /\ jobs[j].pc = "kude"
    /\ \E encolado \in BOOLEAN :
         kudeJobs' = IF encolado
                     THEN kudeJobs \cup {[facturaId |-> jobs[j].facturaId,
                                          xmlPath |-> jobs[j].xmlPath,
                                          attemptsMade |-> 0]}
                     ELSE kudeJobs
    /\ jobs' = [jobs EXCEPT ![j].estado = IF jobs[j].huerfano THEN "abandonado"
                                          ELSE "completed",
                            ![j].pc = "-"]
    /\ UNCHANGED <<descargas, consultas, calc, now, invoices, files, opLog, reqs, retries, enFlight, envios, cdcHist>>

\* a catch that rethrows without saving the record
WorkerCatchSinGuardar(j) ==
    /\ jobs[j].estado = "active" /\ jobs[j].pc = "catch"
    /\ jobs' = [jobs EXCEPT ![j] = MoveToFailed(jobs[j])]
    /\ UNCHANGED <<descargas, consultas, calc, now, invoices, files, opLog, reqs, kudeJobs,
                   retries, enFlight, envios, cdcHist>>

\* a catch that saves the record and the log entry and swallows the error
WorkerCatchSinRelanzar(j) ==
    /\ jobs[j].estado = "active" /\ jobs[j].pc = "catch"
    /\ invoices' = [invoices EXCEPT
                       ![jobs[j].facturaId].estadoSifen = "error",
                       ![jobs[j].facturaId].mensajeRetorno = jobs[j].error]
    /\ opLog' = opLog \cup {<<jobs[j].facturaId, "error">>}
    /\ jobs' = [jobs EXCEPT ![j].estado = "completed", ![j].pc = "-"]
    /\ UNCHANGED <<descargas, consultas, calc, now, files, reqs, kudeJobs, retries,
                   enFlight, envios, cdcHist>>

\* the processor's catch: the record is saved with 'error' and the message,
\* an 'error' log entry is written, and the error is rethrown to Bull
WorkerCatch(j) ==
    /\ jobs[j].estado = "active" /\ jobs[j].pc = "catch"
    /\ IF jobs[j].invoice
       THEN /\ invoices' = [invoices EXCEPT
                               ![jobs[j].facturaId].estadoSifen = "error",
                               ![jobs[j].facturaId].mensajeRetorno = jobs[j].error]
            /\ opLog' = opLog \cup {<<jobs[j].facturaId, "error">>}
       ELSE UNCHANGED <<invoices, opLog>>
    /\ jobs' = [jobs EXCEPT ![j] =
                   [(IF jobs[j].huerfano
                     THEN [jobs[j] EXCEPT !.estado = "abandonado", !.pc = "-"]
                     ELSE MoveToFailed(jobs[j]))
                       EXCEPT !.guardados = IF jobs[j].invoice THEN @ + 1 ELSE @]]
    /\ UNCHANGED <<descargas, consultas, calc, now, files, reqs, kudeJobs, retries, enFlight, envios, cdcHist>>

-----------------------------------------------------------------------------
(* The KUDE processor: kudeQueue.process('generar-kude') *)

\* what generarKUDE returns: the path of a PDF that exists, the path of one
\* that does not, or null (it catches every failure of the rendering)
ResultadosKude == {"pdf", "ausente", "null"}

\* path.join(destFolder, pdfFile) for the document of the job
RutaPdf(xmlPath) == <<RaizServicio, xmlPath, "pdf">>

\* a processor that writes the whole document it loaded, with a state of
\* its own, instead of the modified path
KudeProcesarConEstado(k) ==
    /\ k \in kudeJobs
    /\ kudeJobs' = kudeJobs \ {k}
    /\ invoices' = [invoices EXCEPT ![k.facturaId].kudePath = RutaPdf(k.xmlPath),
                                    ![k.facturaId].estadoSifen = "enviado"]
    /\ UNCHANGED <<descargas, consultas, calc, now, files, opLog, reqs, jobs, retries,
                   enFlight, envios, cdcHist>>

\* the processor of a 'generar-kude' job.  When generarKUDE returned the
\* path of an existing file the record is loaded and saved with kudePath,
\* a save that writes the modified path only.  findById or save may throw:
\* the processor rethrows and the queue tries the job again while attempts
\* remain
KudeProcesar(k) ==
    /\ k \in kudeJobs
    /\ \E pdfPath \in ResultadosKude, falla \in BOOLEAN :
         IF pdfPath = "pdf" /\ falla
         THEN /\ kudeJobs' = (kudeJobs \ {k}) \cup
                               (IF k.attemptsMade + 1 < KudeAttempts
                                THEN {[k EXCEPT !.attemptsMade = @ + 1]} ELSE {})
              /\ UNCHANGED invoices
         ELSE /\ kudeJobs' = kudeJobs \ {k}
              /\ invoices' = IF pdfPath = "pdf"
                             THEN [invoices EXCEPT ![k.facturaId].kudePath = RutaPdf(k.xmlPath)]
                             ELSE invoices
    /\ UNCHANGED <<descargas, consultas, calc, now, files, opLog, reqs, jobs, retries,
                   enFlight, envios, cdcHist>>

-----------------------------------------------------------------------------
(* POST /api/invoices/:id/retry *)

\* findById, the 'reintento' log entry, the checks of xmlPath, file and cdc,
\* estadoSifen = 'procesando' saved, and the call of setApi.recibe with the
\* stored document
RetryInicio(q, id) ==
    /\ retries[q].pc = "idle"
    /\ IF id \notin InvoiceIds
       THEN /\ retries' = [retries EXCEPT ![q] = [pc |-> "fin", inv |-> id, status |-> 404]]
            /\ UNCHANGED <<invoices, opLog, enFlight, envios>>
       ELSE IF invoices[id].xmlPath = << >>
               \/ ~Existe(Unir(RaizRutas, invoices[id].xmlPath))
               \/ invoices[id].cdc = << >>
       THEN /\ retries' = [retries EXCEPT ![q] = [pc |-> "fin", inv |-> id, status |-> 400]]
            /\ opLog' = opLog \cup {<<id, "reintento">>}
            /\ UNCHANGED <<invoices, enFlight, envios>>
       ELSE /\ retries' = [retries EXCEPT ![q] = [pc |-> "enviado", inv |-> id, status |-> 0]]
            /\ opLog' = opLog \cup {<<id, "reintento">>}
            /\ invoices' = [invoices EXCEPT ![id].estadoSifen = "procesando"]
            /\ enFlight' = [enFlight EXCEPT ![id] = @ + 1]
            /\ envios' = [envios EXCEPT ![id] = @ + 1]
    /\ UNCHANGED <<descargas, consultas, calc, now, files, reqs, jobs, kudeJobs, cdcHist>>

\* the resubmission returns or throws; the record is saved with the outcome
RetryRespuesta(q) ==
    /\ retries[q].pc = "enviado"
    /\ LET id == retries[q].inv
       IN  /\ enFlight' = [enFlight EXCEPT ![id] = @ - 1]
           /\ \E resp \in Respuestas \cup {"throw"} :
                IF resp = "throw"
                THEN /\ invoices' = [invoices EXCEPT
                                        ![id].estadoSifen = "error",
                                        ![id].mensajeRetorno = "Error al reenviar"]
                     /\ retries' = [retries EXCEPT ![q].pc = "fin", ![q].status = 500]
                     /\ UNCHANGED opLog
                ELSE LET codigoRetorno == extraerCodigoRetornoRetry(resp)
                     IN  /\ invoices' = [invoices EXCEPT
                                            ![id].estadoSifen = determinarEstadoRetry(
                                                codigoRetorno,
                                                extraerEstadoResultadoRetry(resp),
                                                extraerMensajeRetornoRetry(resp)),
                                            ![id].codigoRetorno = codigoRetorno,
                                            ![id].mensajeRetorno = extraerMensajeRetornoRetry(resp)]
                         /\ opLog' = opLog \cup {<<id, "reintento_respuesta">>}
                         /\ retries' = [retries EXCEPT ![q].pc = "fin", ![q].status = 200]
    /\ UNCHANGED <<descargas, consultas, calc, now, files, reqs, jobs, kudeJobs, envios, cdcHist>>

-----------------------------------------------------------------------------
(* POST /api/facturar: facturaController.generarFactura, which processes   *)
(* the submission inside the request                                       *)

\* generarFacturaHash of the controller: the body's values as they arrive
generarFacturaHashControlador(d, t) ==
    <<d.ruc, d.numero, IF d.fecha.forma = "ausente" THEN ISOde(t) ELSE d.fecha>>

\* `${establecimiento || '001'}-${punto || '001'}-${numero padded to 7}`
CorrelativoControlador(d) ==
    <<"0", "0", "1", "-", "0", "0", "1", "-">> \o padStart(d.numero, 7)

\* new Invoice({... estadoSifen: 'recibido' ...})
NuevaInvoiceControlador(datos, hash) ==
    [correlativo |-> CorrelativoControlador(datos),
     estadoSifen |-> "recibido",
     datosFactura |-> datos,
     facturaHash |-> hash,
     cdc |-> << >>,
     xmlPath |-> << >>,
     codigoRetorno |-> NULL,
     mensajeRetorno |-> NULL,
     kudePath |-> << >>]

\* the validations of the body and the issuer, the fingerprint and the
\* duplicate check, answered with 400 or 404 when one fails
ControladorRecibir(r, body) ==
    /\ reqs[r].pc = "nuevo"
    /\ LET empresa == EmpresaPorRuc(body.ruc)
           hash == generarFacturaHashControlador(body, now)
       IN  reqs' = IF body.ruc = << >>
                   THEN [Responder(r, 400, 0) EXCEPT ![r].ruta = "facturar"]
                   ELSE IF empresa = {}
                   THEN [Responder(r, 404, 0) EXCEPT ![r].ruta = "facturar"]
                   ELSE IF \E e \in empresa : ~e.activo \/ ~e.certificado
                   THEN [Responder(r, 400, 0) EXCEPT ![r].ruta = "facturar"]
                   ELSE IF body.numero = << >>
                   THEN [Responder(r, 400, 0) EXCEPT ![r].ruta = "facturar"]
                   ELSE IF FacturaExistente(hash) # {}
                   THEN [Responder(r, 400, CHOOSE i \in FacturaExistente(hash) : TRUE)
                            EXCEPT ![r].ruta = "facturar", ![r].datos = body,
                                   ![r].hash = hash]
                   ELSE [reqs EXCEPT ![r].pc = "ctlCrear", ![r].ruta = "facturar",
                                     ![r].datos = body, ![r].hash = hash]
    /\ UNCHANGED <<now, invoices, files, opLog, jobs, kudeJobs, retries,
                   enFlight, envios, cdcHist, descargas, consultas, calc>>

\* invoice.save() of the new record in 'recibido'; the unique index rejects
\* a second record with the fingerprint.  The log entry that follows is
\* created with estado: 'procesando', which the enum of OperationLog.estado
\* rejects: OperationLog.create throws and no entry is written
ControladorCrear(r) ==
    /\ reqs[r].pc = "ctlCrear"
    /\ IF InsertAceptado(reqs[r].hash)
       THEN /\ invoices' = Append(invoices,
                                  NuevaInvoiceControlador(reqs[r].datos, reqs[r].hash))
            /\ enFlight' = Append(enFlight, 0)
            /\ envios' = Append(envios, 0)
            /\ cdcHist' = Append(cdcHist, {})
            /\ reqs' = [reqs EXCEPT ![r].pc = "ctlCatch", ![r].inv = Len(invoices) + 1,
                                    ![r].error = "OperationLog validation failed"]
       ELSE /\ reqs' = [reqs EXCEPT ![r].pc = "ctlCatch", ![r].error = "E11000"]
            /\ UNCHANGED <<invoices, enFlight, envios, cdcHist>>
    /\ UNCHANGED <<now, files, opLog, jobs, kudeJobs, retries, descargas, consultas, calc>>

\* the catch of the handler: the record found by its correlativo is saved
\* with 'error' and the message, and the request is answered with 500
ControladorCatch(r) ==
    /\ reqs[r].pc = "ctlCatch"
    /\ LET encontradas == { i \in InvoiceIds :
                              invoices[i].correlativo = CorrelativoControlador(reqs[r].datos) }
       IN  IF reqs[r].datos.numero # << >> /\ encontradas # {}
           THEN LET i == CHOOSE i \in encontradas : \A k \in encontradas : i <= k
                IN  /\ invoices' = [invoices EXCEPT ![i].estadoSifen = "error",
                                                    ![i].mensajeRetorno = reqs[r].error]
                    /\ opLog' = opLog \cup {<<i, "error">>}
           ELSE UNCHANGED <<invoices, opLog>>
    /\ reqs' = Responder(r, 500, reqs[r].inv)
    /\ UNCHANGED <<now, files, jobs, kudeJobs, retries, enFlight, envios, cdcHist,
                   descargas, consultas, calc>>

-----------------------------------------------------------------------------
(* GET /api/invoices/:id/download-xml *)

\* findById, the check of xmlPath, the check of the file under
\* '../../de_output', and the stream of its content
Descargar(d, id) ==
    /\ descargas[d].pc = "idle"
    /\ descargas' = [descargas EXCEPT ![d] =
         IF id \notin InvoiceIds
         THEN [pc |-> "fin", inv |-> id, status |-> 404,
               message |-> "Factura no encontrada", contenido |-> << >>]
         ELSE IF invoices[id].xmlPath = << >>
         THEN [pc |-> "fin", inv |-> id, status |-> 404,
               message |-> "XML no disponible", contenido |-> << >>]
         ELSE IF ~Existe(Unir(RaizRutas, invoices[id].xmlPath))
         THEN [pc |-> "fin", inv |-> id, status |-> 404,
               message |-> "Archivo XML no encontrado en el servidor",
               contenido |-> << >>]
         ELSE [pc |-> "fin", inv |-> id, status |-> 200, message |-> NULL,
               contenido |-> files[Unir(RaizRutas, invoices[id].xmlPath)]]]
    /\ UNCHANGED <<now, invoices, files, opLog, reqs, jobs, kudeJobs, retries,
                   enFlight, envios, cdcHist, consultas, calc>>

-----------------------------------------------------------------------------
(* The status routes GET /api/factura/estado/:id and                       *)
(* GET /api/invoices/estado/:cdc                                           *)

\* the enum of estadoSifen in the Invoice schema
EstadosSifen == {"recibido", "procesando", "enviado", "aceptado", "rechazado",
                 "error", "encolado"}

\* the <estado> element of the answer of setApi.consulta: absent, a value
\* of the enum, or a value outside it
EstadosSET == {NULL, "aceptado", "Aprobado"}

\* GET /api/factura/estado/:id: Invoice.findById
ConsultaLeerId(c, id) ==
    /\ consultas[c].pc = "idle"
    /\ consultas' = [consultas EXCEPT ![c] =
         IF id \notin InvoiceIds
         THEN [@ EXCEPT !.pc = "fin", !.ruta = "id", !.inv = id, !.status = 404]
         ELSE [@ EXCEPT !.pc = "job", !.ruta = "id", !.inv = id,
                        !.leido = invoices[id].estadoSifen,
                        !.estado = invoices[id].estadoSifen]]
    /\ UNCHANGED <<now, invoices, files, opLog, reqs, jobs, kudeJobs, retries,
                   enFlight, envios, cdcHist, descargas, calc>>

\* facturaQueue.getJob and the answer, with estado: invoice.estadoSifen
ConsultaResponderId(c) ==
    /\ consultas[c].pc = "job"
    /\ consultas' = [consultas EXCEPT ![c].pc = "fin", ![c].status = 200,
                                      ![c].reportado = consultas[c].estado]
    /\ UNCHANGED <<now, invoices, files, opLog, reqs, jobs, kudeJobs, retries,
                   enFlight, envios, cdcHist, descargas, calc>>

\* the :cdc of a request: an identifier saved on a record, or one that no
\* record carries
CdcsGuardados == { invoices[i].cdc : i \in InvoiceIds } \ {<< >>}
CdcDesconocido == <<"0">>

\* GET /api/invoices/estado/:cdc: Invoice.findOne({cdc}) and the call of
\* setApi.consulta
ConsultaLeerCdc(c, cdc) ==
    /\ consultas[c].pc = "idle"
    /\ LET encontradas == { i \in InvoiceIds : invoices[i].cdc = cdc }
       IN  consultas' = [consultas EXCEPT ![c] =
             IF encontradas = {}
             THEN [@ EXCEPT !.pc = "fin", !.ruta = "cdc", !.status = 404]
             ELSE LET i == CHOOSE i \in encontradas : \A k \in encontradas : i <= k
                  IN  [@ EXCEPT !.pc = "remoto", !.ruta = "cdc", !.inv = i,
                                !.leido = invoices[i].estadoSifen,
                                !.estado = invoices[i].estadoSifen]]
    /\ UNCHANGED <<now, invoices, files, opLog, reqs, jobs, kudeJobs, retries,
                   enFlight, envios, cdcHist, descargas, calc>>

\* the consult returns or throws.  A state that differs from the document's
\* is assigned on the document and saved; the save validates estadoSifen
\* against the enum and rejects other values, and the inner catch swallows
\* that.  The answer carries estadoLocal: invoiceRecord.estadoSifen
ConsultaResponderCdc(c) ==
    /\ consultas[c].pc = "remoto"
    /\ \E estadoMockSet \in EstadosSET \cup {"throw"} :
         IF estadoMockSet \in {"throw", NULL} \/ estadoMockSet = consultas[c].estado
         THEN /\ consultas' = [consultas EXCEPT ![c].pc = "fin", ![c].status = 200,
                                                ![c].reportado = consultas[c].estado]
              /\ UNCHANGED invoices
         ELSE /\ consultas' = [consultas EXCEPT ![c].pc = "fin", ![c].status = 200,
                                                ![c].estado = estadoMockSet,
                                                ![c].reportado = estadoMockSet]
              /\ invoices' = IF estadoMockSet \in EstadosSifen
                             THEN [invoices EXCEPT
                                     ![consultas[c].inv].estadoSifen = estadoMockSet]
                             ELSE invoices
    /\ UNCHANGED <<now, files, opLog, reqs, jobs, kudeJobs, retries,
                   enFlight, envios, cdcHist, descargas, calc>>

-----------------------------------------------------------------------------
(* The result interpreter called on its own *)

\* the arguments the interpreter is called with: the codes it names, no
\* code, the empty string and codes it does not name
Codigos == Aceptados \cup Pendientes \cup Rechazados
               \cup {NULL, "", "0420", "9999", "0001", "00", "1005", "ABCD"}
EstadosResultado == {NULL, "Aprobado", "Rechazado"}
Mensajes == {NULL, "mensaje"}

\* the three interpreters of result codes called on the same arguments:
\* the one of the service, the one of the retry route and the one of the
\* controller
Interpretar(codigo, estadoResultado, mensaje) ==
    /\ calc' = [codigo |-> codigo, estadoResultado |-> estadoResultado,
                mensaje |-> mensaje,
                estado |-> determinarEstadoSegunCodigoRetorno(
                               codigo, estadoResultado, mensaje),
                retry |-> determinarEstadoRetry(codigo, estadoResultado, mensaje),
                controlador |-> determinarEstadoSegunCodigo(codigo)]
    /\ UNCHANGED <<now, invoices, files, opLog, reqs, jobs, kudeJobs, retries,
                   enFlight, envios, cdcHist, descargas, consultas>>

\* normalizarDatetime(datetimeStr) called on its own
Normalizar(f, t) ==
    /\ calc' = [entrada |-> f, t |-> t, salida |-> normalizarDatetime(f, t)]
    /\ UNCHANGED <<now, invoices, files, opLog, reqs, jobs, kudeJobs, retries,
                   enFlight, envios, cdcHist, descargas, consultas>>

\* generarCDC(datosCompletos) called on its own
DerivarCDC(d, rnd, t) ==
    /\ calc' = [d |-> d, cdc |-> generarCDC(d, rnd, t)]
    /\ UNCHANGED <<now, invoices, files, opLog, reqs, jobs, kudeJobs, retries,
                   enFlight, envios, cdcHist, descargas, consultas>>

-----------------------------------------------------------------------------
(* Processes *)

\* the API process serving the requests R of the ingress routes
Ingreso(R, rutas, bodies) ==
    \/ \E r \in R, ruta \in rutas, body \in bodies : IngressRecibir(r, ruta, body)
    \/ \E r \in R : IngressCrear(r)
    \/ \E r \in R : IngressEncolar(r)

\* the queue backend
Cola ==
    \/ \E j \in JobIdx : JobPromover(j)
    \/ \E j \in JobIdx : RetryFailedJobs(j)

\* the worker process
Worker ==
    \/ \E j \in JobIdx : WorkerTomar(j)
    \/ \E j \in JobIdx : WorkerInicio(j)
    \/ \E j \in JobIdx : WorkerEmpresa(j)
    \/ \E j \in JobIdx : WorkerCDC(j)
    \/ \E j \in JobIdx : WorkerXml(j)
    \/ \E j \in JobIdx : WorkerEnviar(j)
    \/ \E j \in JobIdx : WorkerRespuesta(j)
    \/ \E j \in JobIdx : WorkerArchivo(j)
    \/ \E j \in JobIdx : WorkerGuardar(j)
    \/ \E j \in JobIdx : WorkerLog(j)
    \/ \E j \in JobIdx : WorkerKude(j)
    \/ \E j \in JobIdx : WorkerCatch(j)

\* the API process serving the requests R of POST /api/facturar
Controlador(R, bodies) ==
    \/ \E r \in R, body \in bodies : ControladorRecibir(r, body)
    \/ \E r \in R : ControladorCrear(r)
    \/ \E r \in R : ControladorCatch(r)

\* the API process serving requests of GET /api/invoices/:id/download-xml
Descarga ==
    \E d \in DescargaIds, id \in InvoiceIds \cup {Len(invoices) + 1} : Descargar(d, id)

\* the API process serving requests of the status routes
Consulta ==
    \/ \E c \in ConsultaIds, id \in InvoiceIds \cup {Len(invoices) + 1} : ConsultaLeerId(c, id)
    \/ \E c \in ConsultaIds : ConsultaResponderId(c)
    \/ \E c \in ConsultaIds, cdc \in CdcsGuardados \cup {CdcDesconocido} : ConsultaLeerCdc(c, cdc)
    \/ \E c \in ConsultaIds : ConsultaResponderCdc(c)

-----------------------------------------------------------------------------
(* Specifications *)

\* one submission through the ingress routes, the queue and the worker
Next ==
    \/ Tick
    \/ Ingreso(1..NReqCola, Rutas, Payloads)
    \/ Cola
    \/ Worker

Spec == Init /\ [][Next]_vars

\* one submission, the queue's timer and the worker, scheduled again and
\* again: the API process goes on with the request it is handling, the
\* queue promotes a delayed job, the worker takes a waiting job and its
\* processor begins
NextJusto ==
    \/ Ingreso(1..NReqCola, Rutas, {PayloadReintento})
    \/ \E j \in JobIdx : JobPromover(j)
    \/ Worker

SpecJusto ==
    /\ Init /\ [][NextJusto]_vars
    /\ WF_vars(Ingreso(1..NReqCola, Rutas, {PayloadReintento}))
    /\ WF_vars(\E j \in JobIdx : JobPromover(j))
    /\ WF_vars(\E j \in JobIdx : WorkerTomar(j))
    /\ WF_vars(\E j \in JobIdx : WorkerInicio(j))

\* submissions of one document number by the issuer on two instants of a
\* day and by a second issuer, each run once by the worker
PayloadsArchivo ==
    { PayloadReintento,
      [PayloadReintento EXCEPT !.fecha.inst = 101],
      [PayloadReintento EXCEPT !.ruc = Ruc8001234] }

NextArchivo ==
    \/ Ingreso(1..NReqArchivo, {"crear"}, PayloadsArchivo)
    \/ Worker

SpecArchivo == Init /\ [][NextArchivo]_vars

\* submissions of one document whose fecha is a timestamp, is absent, or
\* is a string Date cannot parse, arriving at different instants
NextHuella ==
    \/ Tick
    \/ Ingreso(ReqIds, Rutas,
               { [PayloadReintento EXCEPT !.fecha = f] :
                   f \in {FechaMicro, FechaAusente, FechaInvalida} })

SpecHuella == Init /\ [][NextHuella]_vars

\* the API process alone: concurrent submissions on the ingress routes
NextIngreso ==
    \/ Tick
    \/ Ingreso(ReqIds, Rutas, Payloads)

SpecIngreso == Init /\ [][NextIngreso]_vars

\* one submission on /crear, the queue, the worker, and the retry and
\* download routes.  The retry route looks for the file under RaizRutas,
\* where the worker writes nothing: no request of this specification passes
\* the checks of RetryInicio, so RetryRespuesta has no step here
NextReintento ==
    \/ Ingreso(1..NReqCola, {"crear"}, {PayloadReintento})
    \/ Cola
    \/ Worker
    \/ \E q \in 1..NRetryCola, id \in InvoiceIds \cup {Len(invoices) + 1} : RetryInicio(q, id)
    \/ Descarga

SpecReintento == Init /\ [][NextReintento]_vars

\* one submission on POST /api/facturar or on an ingress route, with bodies
\* that pass or fail the validations, and the retry and download routes.
\* The controller writes no file, so RetryRespuesta has no step here either
NextControlador ==
    \/ Controlador(1..NReqCola, PayloadsValidacion)
    \/ Ingreso(1..NReqCola, Rutas, PayloadsValidacion)
    \/ \E q \in RetryIds, id \in InvoiceIds \cup {Len(invoices) + 1} : RetryInicio(q, id)
    \/ Descarga

\* one submission on /crear, the queue, the worker and the status routes
NextConsulta ==
    \/ Ingreso(1..NReqCola, {"crear"}, {PayloadReintento})
    \/ Cola
    \/ Worker
    \/ Consulta

SpecConsulta == Init /\ [][NextConsulta]_vars

\* one submission on /crear, the queue, the worker and the KUDE processor
NextKude ==
    \/ Ingreso(1..NReqCola, {"crear"}, {PayloadReintento})
    \/ Cola
    \/ Worker
    \/ \E k \in kudeJobs : KudeProcesar(k)

SpecKude == Init /\ [][NextKude]_vars

\* one submission on /crear, the queue with its job timeout, and the worker
NextTimeout ==
    \/ Ingreso(1..NReqCola, {"crear"}, {PayloadReintento})
    \/ \E j \in JobIdx : JobPromover(j)
    \/ \E j \in JobIdx : JobTimeout(j)
    \/ Worker

SpecTimeout == Init /\ [][NextTimeout]_vars

SpecControlador == Init /\ [][NextControlador]_vars

\* generarCDC on bodies with the ruc of eight and of seven digits, twenty
\* document numbers, with and without a security code and a date, at every
\* instant
NextCDC ==
    \E ruc \in {Ruc80012345, Ruc8001234},
       a \in {"5", "6"}, k \in 1..10, codigo \in {<< >>, Codigo123456789},
       fecha \in {FechaMicro, FechaAusente}, rnd \in Aleatorios, t \in 0..MaxClock :
        DerivarCDC([PayloadReintento EXCEPT
                       !.ruc = ruc,
                       !.numero = <<"0", "0", "0", "0", "0", a, Digits[k]>>,
                       !.codigoSeguridadAleatorio = codigo,
                       !.fecha = fecha], rnd, t)

SpecCDC == Init /\ [][NextCDC]_vars

\* the arguments normalizarDatetime is called with: strings with six
\* fraction digits (a month of the calendar or the month 13; no suffix, 'Z'
\* or an offset), ISO strings, Dates and timestamps, a Date without a time
\* value, a number no Date can hold, a string Date cannot parse, and null
FechasDePrueba ==
    { [forma |-> "micro", ymd |-> ymd, inst |-> inst, us |-> us, resto |-> resto] :
        ymd \in {Ymd20260224, Ymd20260301, <<"2", "0", "2", "6", "1", "3", "0", "1">>},
        inst \in {100, 101},
        us \in {<<"8", "0", "9">>, <<"0", "0", "0">>},
        resto \in Zonas }
    \cup { [forma |-> forma, ymd |-> ymd, inst |-> inst, us |-> << >>, resto |-> << >>] :
             forma \in {"iso", "date", "numero"},
             ymd \in {Ymd20260224, Ymd20260301}, inst \in {100, 101} }
    \cup { [FechaInvalida EXCEPT !.forma = forma] :
             forma \in {"invalida", "dateInvalida", "numeroFuera"} }
    \cup { FechaAusente }

NextFechas ==
    \E f \in FechasDePrueba, t \in 0..MaxClock : Normalizar(f, t)

SpecFechas == Init /\ [][NextFechas]_vars

\* the result interpreter on every argument
NextFunciones ==
    \E codigo \in Codigos, estadoResultado \in EstadosResultado, mensaje \in Mensajes :
        Interpretar(codigo, estadoResultado, mensaje)

SpecFunciones == Init /\ [][NextFunciones]_vars

-----------------------------------------------------------------------------
(* Properties *)

\* C1: in every pipeline run the stamped document is written to disk before
\* setApi.recibe is called: an attempt whose submission has been issued has
\* written its file.
C1_ArchivoAntesDeEnviar ==
    \A j \in JobIdx :
        (jobs[j].estado = "active" /\ jobs[j].pc = "respuesta") => jobs[j].xmlPath # << >>

\* C2: when setApi.recibe throws, the attempt ends with the record in
\* 'error', its xmlPath set, and the file at that path on disk.
C2_ArchivoSobreviveAlFallo ==
    \A j \in JobIdx :
        (jobs[j].estado \in {"delayed", "failed"} /\ jobs[j].error = "ECONNREFUSED")
            => LET inv == invoices[jobs[j].facturaId]
               IN  /\ inv.estadoSifen = "error"
                   /\ inv.xmlPath # << >>
                   /\ Existe(Unir(RaizServicio, inv.xmlPath))

\* the submissions that have been answered
Respondidas == { r \in ReqIds : reqs[r].pc = "fin" }

\* C3: at most one Invoice record exists per facturaHash, and a submission
\* on the ingress routes never alters a record that already exists: a second
\* submission with the same tuple creates no second record and leaves the
\* first as it was.
C3_UnRegistroPorHash ==
    /\ [](\A i, k \in InvoiceIds :
            invoices[i].facturaHash = invoices[k].facturaHash => i = k)
    /\ [][\A i \in InvoiceIds : i \in 1..Len(invoices') /\ invoices'[i] = invoices[i]]_vars

\* two submissions with the same fingerprint passed the duplicate check
\* together; one created the record, the insert of the other was rejected
C3_Witness ==
    \E r, s \in Respondidas :
        /\ r # s /\ reqs[r].hash = reqs[s].hash
        /\ reqs[r].status = 202 /\ reqs[s].status = 500
        /\ Cardinality(FacturaExistente(reqs[r].hash)) = 1

\* C4: every submission whose fingerprint is that of an existing record is
\* answered 409 with the id of that record and enqueues no job, also when
\* two such submissions both pass findOne before either saves.
C4_DuplicadoRecibe409 ==
    \A r \in Respondidas :
        (reqs[r].hash # << >> /\ reqs[r].inv = 0 /\ FacturaExistente(reqs[r].hash) # {})
            => /\ reqs[r].status = 409
               /\ reqs[r].facturaId \in FacturaExistente(reqs[r].hash)
               /\ ~reqs[r].job

C5_MismoCDC ==
    \A i \in InvoiceIds :
        invoices[i].datosFactura.codigoSeguridadAleatorio = << >>
            => \A c, d \in cdcHist[i] :
                   c = d /\ CodigoSeguridadDe(c) = CodigoSeguridadDe(d)

C8_SinSolapamiento ==
    \A i \in InvoiceIds :
        /\ enFlight[i] <= 1
        /\ Cardinality({ j \in JobIdx : jobs[j].facturaId = i /\ jobs[j].estado = "active" })
             + Cardinality({ q \in RetryIds : retries[q].inv = i /\ retries[q].pc = "enviado" })
               <= 1

\* C9: every change of a record from 'error' to 'procesando' is made by a
\* request of POST /:id/retry, and by no other operation.
C9_SoloRetryReprocesa ==
    [][\A i \in InvoiceIds :
          (invoices[i].estadoSifen = "error" /\ invoices'[i].estadoSifen = "procesando")
              => \E q \in RetryIds : RetryInicio(q, i)]_vars

\* C10: an invoice in 'aceptado' or 'rechazado' is never processed again:
\* neither a dequeue by the worker nor a request of the retry route moves it
\* to 'procesando' or submits it to the remote authority.
C10_TerminalNoSeReprocesa ==
    [][\A i \in InvoiceIds :
          invoices[i].estadoSifen \in {"aceptado", "rechazado"}
              => /\ invoices'[i].estadoSifen # "procesando"
                 /\ envios'[i] = envios[i]]_vars

\* C11: from the first 'procesando' of a job until the job settles, a final
\* state is saved on the record exactly once, and that save carries the
\* result code and the artifact path with it.
C11_UnSoloGuardadoFinal ==
    \A j \in JobIdx :
        /\ jobs[j].guardados <= 1
        /\ jobs[j].estado \in {"completed", "failed"}
               => /\ jobs[j].guardados = 1
                  /\ invoices[jobs[j].facturaId].codigoRetorno # NULL
                  /\ invoices[jobs[j].facturaId].xmlPath # << >>

\* C12: on dequeue the worker saves 'procesando' on the record before any
\* stage of the pipeline runs for the attempt: while the attempt is in its
\* stages the record read 'procesando' when the first stage began, and an
\* attempt that has not saved it yet has derived, submitted and written
\* nothing.
C12_ProcesandoAntesDeEtapas ==
    \A j \in JobIdx :
        /\ (jobs[j].estado = "active"
              /\ jobs[j].pc \in {"empresa", "cdc", "xml", "enviar", "respuesta",
                                  "archivo", "guardar"})
               => /\ jobs[j].invoice
                  /\ invoices[jobs[j].facturaId].estadoSifen = "procesando"
        /\ (jobs[j].estado = "active" /\ jobs[j].pc = "inicio")
               => /\ jobs[j].cdc = << >> /\ jobs[j].xmlPath = << >>
                  /\ jobs[j].codigoRetorno = NULL
                  /\ enFlight[jobs[j].facturaId] = 0

\* a re-attempt of a job whose first attempt left the record in 'error' is
\* about to write its file
C12_Witness ==
    \E j \in JobIdx :
        /\ jobs[j].estado = "active" /\ jobs[j].pc = "archivo" /\ jobs[j].runs = 2
        /\ invoices[jobs[j].facturaId].estadoSifen = "procesando"
        /\ invoices[jobs[j].facturaId].mensajeRetorno # NULL

\* C13: the result interpreter returns, for every code and whatever the
\* other two arguments are, 'aceptado' for 0000, 0, 2 and 0421, 'procesando'
\* for 3 and 0003, 'rechazado' for 1000, 1001, 1002, 1003, 1004 and 1, and
\* 'enviado' for every other argument, null and the empty string included.
C13_InterpreteTotal ==
    calc # CalcNuevo =>
        /\ calc.estado \in {"aceptado", "procesando", "rechazado", "enviado"}
        /\ calc.estado = "aceptado"
              <=> calc.codigo \in {"0000", "0", "2", "0421"}
        /\ calc.estado = "procesando"
              <=> calc.codigo \in {"3", "0003"}
        /\ calc.estado = "rechazado"
              <=> calc.codigo \in {"1000", "1001", "1002", "1003", "1004", "1"}

C13_Witness ==
    /\ calc.codigo = "0420" /\ calc.estadoResultado = "Rechazado"
    /\ calc.estado = "enviado"

\* C14: when the response of the remote authority carries no result-code
\* element, the result saved on the record is 'enviado'.
C14_SinCodigoEsEnviado ==
    \A j \in JobIdx :
        (jobs[j].estado = "active" /\ jobs[j].pc = "log" /\ jobs[j].soapResponse = NULL)
            => invoices[jobs[j].facturaId].estadoSifen = "enviado"

\* C15: when setApi.recibe throws, the attempt ends with the record saved in
\* 'error', mensajeRetorno the error's message and codigoRetorno '9999'.
C15_FalloDeTransporte ==
    \A j \in JobIdx :
        (jobs[j].estado \in {"delayed", "failed"} /\ jobs[j].error = "ECONNREFUSED")
            => LET inv == invoices[jobs[j].facturaId]
               IN  /\ inv.estadoSifen = "error"
                   /\ inv.mensajeRetorno = "ECONNREFUSED"
                   /\ inv.codigoRetorno = "9999"

\* C16: a request of the retry route for a record in 'error' that has no
\* persisted artifact starts a full processing of the invoice: when the
\* request has been handled, a job of the invoice is waiting, delayed or
\* active in the queue.
C16_RetrySinArchivoReprocesa ==
    [][\A q \in RetryIds, i \in InvoiceIds :
          (/\ RetryInicio(q, i)
           /\ invoices[i].estadoSifen = "error"
           /\ invoices[i].xmlPath = << >>)
              => \E j \in 1..Len(jobs') : /\ jobs'[j].facturaId = i
                                           /\ jobs'[j].estado \in {"waiting", "delayed", "active"}]_vars

\* C17: a request of the retry route for a record in 'error' whose artifact
\* file exists submits the stored document to the remote authority once
\* more, and neither that step nor the handling of the answer changes cdc,
\* xmlPath, facturaHash or any file.
C17_RetryReenviaArchivo ==
    [][\A q \in RetryIds, i \in InvoiceIds :
          /\ (/\ RetryInicio(q, i)
              /\ invoices[i].estadoSifen = "error"
              /\ \E raiz \in {RaizServicio, RaizRutas} :
                    Existe(Unir(raiz, invoices[i].xmlPath)))
                 => /\ envios'[i] = envios[i] + 1
                    /\ retries'[q].pc = "enviado"
                    /\ files' = files
                    /\ invoices'[i].cdc = invoices[i].cdc
                    /\ invoices'[i].xmlPath = invoices[i].xmlPath
                    /\ invoices'[i].facturaHash = invoices[i].facturaHash
          /\ (RetryRespuesta(q) /\ retries[q].inv = i)
                 => /\ files' = files
                    /\ invoices'[i].cdc = invoices[i].cdc
                    /\ invoices'[i].xmlPath = invoices[i].xmlPath
                    /\ invoices'[i].facturaHash = invoices[i].facturaHash]_vars

\* C18: in every state a record has an xmlPath exactly when a file has been
\* written for its invoice (a file whose document carries a CDC generated
\* for it), and the file under its xmlPath exists.
C18_XmlPathSiiArchivo ==
    \A i \in InvoiceIds :
        /\ invoices[i].xmlPath # << >>
              <=> \E p \in DOMAIN files : files[p] \in cdcHist[i]
        /\ invoices[i].xmlPath # << >>
              => Existe(Unir(RaizServicio, invoices[i].xmlPath))

\* C19: a request of GET /:id/download-xml is answered with the stored
\* document when the pipeline has persisted an artifact for the invoice (the
\* record has an xmlPath and the file written under it exists), and with
\* 404 'XML no disponible' when no file was ever written for the invoice.
C19_DescargaEntregaArchivo ==
    [][\A d \in DescargaIds, i \in InvoiceIds :
          Descargar(d, i) =>
              /\ (\E raiz \in {RaizServicio, RaizRutas} :
                         Existe(Unir(raiz, invoices[i].xmlPath)))
                     => /\ descargas'[d].status = 200
                        /\ descargas'[d].contenido \in cdcHist[i]
              /\ (~ \E p \in DOMAIN files : files[p] \in cdcHist[i])
                     => /\ descargas'[d].status = 404
                        /\ descargas'[d].message = "XML no disponible"]_vars

\* C20: the state a status route reports is a state saved on the record:
\* the one the request read from the collection, or the one the record
\* holds when the answer is sent.
C20_ConsultaReportaGuardado ==
    [][\A c \in ConsultaIds :
          (consultas[c].pc # "fin" /\ consultas'[c].pc = "fin" /\ consultas'[c].status = 200)
              => consultas'[c].reportado
                   \in {consultas'[c].leido, invoices'[consultas'[c].inv].estadoSifen}]_vars

\* C21: the status routes leave every Invoice record unchanged: no step that
\* handles a request of GET /api/factura/estado/:id or
\* GET /api/invoices/estado/:cdc changes the Invoice collection.
C21_ConsultaNoEscribe ==
    [][consultas' # consultas => invoices' = invoices]_vars


\* C22: the processing of a 'generar-kude' job, whether the rendering gives
\* a file, gives none, or the processor throws, changes no field of a record
\* other than kudePath, and changes no record but the job's.
C22_KudeSoloKudePath ==
    [][\A k \in kudeJobs :
          KudeProcesar(k) =>
              \A i \in InvoiceIds :
                  /\ [invoices'[i] EXCEPT !.kudePath = << >>]
                        = [invoices[i] EXCEPT !.kudePath = << >>]
                  /\ i # k.facturaId => invoices'[i] = invoices[i]]_vars

\* a job of the KUDE queue has saved kudePath on a record with a result
C22_Witness ==
    \E i \in InvoiceIds :
        /\ invoices[i].kudePath # << >>
        /\ invoices[i].estadoSifen \in {"aceptado", "rechazado", "error", "procesando"}
        /\ invoices[i].codigoRetorno # NULL


\* C28: within one attempt of a 'generar-factura' job the values passed to
\* job.progress, by the worker and by procesarFactura together, never
\* decrease.
C28_ProgresoMonotono ==
    \A j \in JobIdx :
        \A a, b \in DOMAIN jobs[j].progreso :
            a < b => jobs[j].progreso[a] <= jobs[j].progreso[b]


\* C24: a submission that the ingress rejects on a validation (no ruc, no
\* issuer with the ruc, an inactive issuer, an issuer without a valid
\* certificate) creates no Invoice record and adds no job: every record and
\* every job carries the ruc of an active issuer with a valid certificate,
\* and a request answered with 400 or 404 has created nothing.
C24_RechazoSinRegistro ==
    /\ \A i \in InvoiceIds :
          /\ BuscarEmpresa(invoices[i].datosFactura.ruc) # {}
          /\ \A e \in BuscarEmpresa(invoices[i].datosFactura.ruc) : e.activo /\ e.certificado
    /\ \A j \in JobIdx :
          /\ BuscarEmpresa(jobs[j].datosFactura.ruc) # {}
          /\ \A e \in BuscarEmpresa(jobs[j].datosFactura.ruc) : e.activo /\ e.certificado
    /\ \A r \in ReqIds :
          (reqs[r].pc = "fin" /\ reqs[r].status \in {400, 404} /\ reqs[r].facturaId = 0)
              => reqs[r].inv = 0 /\ ~reqs[r].job

\* a request was rejected on a validation while nothing is stored
C24_Witness ==
    \E r \in ReqIds :
        /\ reqs[r].pc = "fin" /\ reqs[r].status \in {400, 404} /\ reqs[r].facturaId = 0
        /\ invoices = << >> /\ jobs = << >>


C30_FalloDeKudeNoPropaga ==
    [][\A j \in JobIdx :
          (jobs[j].estado = "active" /\ jobs[j].pc = "kude" /\ jobs'[j] # jobs[j]
             /\ kudeJobs' = kudeJobs)
            => /\ jobs'[j].estado = "completed"
               /\ invoices' = invoices]_vars

\* a job is completed, its record holds the result, and the KUDE queue has
\* no job for the invoice
C30_Witness ==
    \E j \in JobIdx :
        /\ jobs[j].estado = "completed"
        /\ \A k \in kudeJobs : k.facturaId # jobs[j].facturaId
        /\ invoices[jobs[j].facturaId].codigoRetorno # NULL
        /\ invoices[jobs[j].facturaId].xmlPath # << >>


\* C25: the derivation of the fingerprint is deterministic: requests that
\* carry the same issuer id, document number and timestamp are given the
\* same fingerprint, at whatever instants and however often they arrive.
C25_HashDeterminista ==
    \A r1, r2 \in ReqIds :
        (/\ reqs[r1].hash # << >> /\ reqs[r2].hash # << >>
         /\ reqs[r1].datos.fecha.forma # "ausente"
         /\ SoloDigitos(reqs[r1].datos.ruc) = SoloDigitos(reqs[r2].datos.ruc)
         /\ reqs[r1].datos.numero = reqs[r2].datos.numero
         /\ reqs[r1].datos.fecha = reqs[r2].datos.fecha)
            => reqs[r1].hash = reqs[r2].hash

\* a later request with the values of a stored record was given the
\* record's fingerprint and answered as a duplicate, after the clock moved
C25_Witness ==
    /\ now > 0
    /\ \E r1, r2 \in ReqIds :
          /\ r1 # r2
          /\ reqs[r1].status = 202 /\ reqs[r2].status = 409
          /\ reqs[r1].datos.fecha.forma # "ausente"
          /\ reqs[r1].datos = reqs[r2].datos
          /\ reqs[r1].hash = reqs[r2].hash


C27_EscenarioAceptado ==
    \A j \in JobIdx :
        (/\ jobs[j].datosFactura.ruc = Ruc80012345
         /\ jobs[j].datosFactura.numero = Numero60
         /\ jobs[j].datosFactura.fecha.ymd = Ymd20260224) =>
            /\ jobs[j].pc = "catch"
                  => jobs[j].error \in {"xmlgen", "xmlsign", "qrgen", "EIO", "ECONNREFUSED"}
            /\ (jobs[j].soapResponse = "0000" /\ (jobs[j].pc = "log" \/ jobs[j].estado = "completed"))
                  => LET inv == invoices[jobs[j].facturaId]
                     IN  /\ inv.estadoSifen = "aceptado"
                         /\ inv.codigoRetorno = "0000"
                         /\ inv.xmlPath # << >>
                         /\ inv.xmlPath.anio = AnioDe(now) /\ inv.xmlPath.mes \in {MesDe(0), MesDe(now)}
                         /\ Existe(Unir(RaizServicio, inv.xmlPath))


\* C31: for a ruc <body>-<dv> whose body has at most eight digits, the
\* identifier generarCDC returns has 44 digits: the document type, the body
\* padded with zeros to eight digits (3..10), dv (11), the establishment,
\* the emission point, the document number, the taxpayer type, the date,
\* the emission type, the security code and the check digit.
C31_CamposDelCDC ==
    "cdc" \in DOMAIN calc =>
        LET ruc == calc.d.ruc
            g == CHOOSE k \in 1..Len(ruc) : ruc[k] = "-"
            body == SubSeq(ruc, 1, g - 1)
            dv == SubSeq(ruc, g + 1, Len(ruc))
            cdc == calc.cdc
        IN  Len(body) <= 8 =>
                /\ Len(cdc) = 44
                /\ \A k \in 1..44 : IsDigit(cdc[k])
                /\ SubSeq(cdc, 3, 10) = padStart(body, 8)
                /\ SubSeq(cdc, 11, 11) = dv
                /\ SubSeq(cdc, 12, 14) = <<"0", "0", "1">>
                /\ SubSeq(cdc, 15, 17) = <<"0", "0", "1">>
                /\ SubSeq(cdc, 18, 24) = calc.d.numero
                /\ cdc[25] = "1"
                /\ SubSeq(cdc, 26, 33) \in {Ymd20260224, Ymd20260301}
                /\ cdc[34] = "1"
                /\ CodigoSeguridadDe(cdc) \in
                      {Codigo123456789} \cup {padStart(rnd, 9) : rnd \in Aleatorios}
                /\ <<cdc[44]>> = calcularDV(SubSeq(cdc, 1, 43))


\* C32: normalizarDatetime returns, for every input, a string that Date
\* parses to a valid date.
C32_NormalizarDaFechaValida ==
    "salida" \in DOMAIN calc =>
        /\ calc.salida.forma # "RangeError"
        /\ esFechaValida(calc.salida)


\* C33: when an attempt fails after the worker has saved the state obtained
\* from the remote response (the 'envio_exitoso' log entry cannot be
\* written), the catch leaves that state on the record and the queue does
\* not schedule another attempt, which would submit the document again.
C33_FalloTrasGuardarConserva ==
    [][\A j \in JobIdx :
          (WorkerCatch(j) /\ jobs[j].error = "OperationLog" /\ ~jobs[j].huerfano)
            => /\ invoices'[jobs[j].facturaId].estadoSifen
                     = invoices[jobs[j].facturaId].estadoSifen
               /\ jobs'[j].estado \notin {"delayed", "waiting"}]_vars


\* C34: every record an ingress route created in 'encolado' eventually
\* leaves 'encolado', when the API process, the queue and the worker are
\* scheduled fairly.
C34_EncoladoSale ==
    \A i \in 1..NReqCola :
        (i \in InvoiceIds /\ invoices[i].estadoSifen = "encolado")
            ~> (i \in InvoiceIds /\ invoices[i].estadoSifen # "encolado")


\* C35: two distinct Invoice Records never have the same artifact path, and
\* the file at the path of a record whose attempt has completed holds the
\* document of that record, not the one of another invoice.
C35_UnaRutaPorFactura ==
    /\ \A i, k \in InvoiceIds :
          (i # k /\ invoices[i].xmlPath # << >>)
              => invoices[i].xmlPath # invoices[k].xmlPath
    /\ \A j \in JobIdx :
          jobs[j].estado = "completed"
              => files[Unir(RaizServicio, invoices[jobs[j].facturaId].xmlPath)]
                    \in cdcHist[jobs[j].facturaId]


\* C36: the interpreter of the service, the one of the retry route and the
\* one of the controller return the same state for every result code.
C36_InterpretesIguales ==
    calc # CalcNuevo =>
        /\ calc.retry = calc.estado
        /\ calc.controlador = calc.estado


\* C37: two submissions with the same issuer id and document number whose
\* fecha field is equal as submitted (both absent and both the same
\* unparseable string included) are given the same fingerprint, whenever
\* they arrive.
C37_HuellaSinReloj ==
    \A r1, r2 \in ReqIds :
        (/\ reqs[r1].hash # << >> /\ reqs[r2].hash # << >>
         /\ SoloDigitos(reqs[r1].body.ruc) = SoloDigitos(reqs[r2].body.ruc)
         /\ reqs[r1].body.numero = reqs[r2].body.numero
         /\ reqs[r1].body.fecha = reqs[r2].body.fecha)
            => reqs[r1].hash = reqs[r2].hash


\* C38: in the step in which a 'generar-factura' job becomes completed, its
\* Invoice Record holds a state other than 'encolado' and 'error', the cdc
\* and the xmlPath of that attempt, neither of them null, and the file of
\* that attempt exists.
C38_CompletadoConResultado ==
    [][\A j \in JobIdx :
          (jobs[j].estado = "active" /\ jobs'[j].estado = "completed")
            => LET inv == invoices'[jobs[j].facturaId]
               IN  /\ inv.estadoSifen \notin {"encolado", "error"}
                   /\ inv.cdc # << >> /\ inv.cdc = jobs[j].cdc
                   /\ inv.xmlPath # << >> /\ inv.xmlPath = jobs[j].xmlPath
                   /\ Unir(RaizServicio, jobs[j].xmlPath) \in DOMAIN files']_vars

=============================================================================
